---- MODULE Spec2Model ----
(***************************************************************************)
(* Model of packages/lodestar-cli/src/cmds/beacon/paths.ts: the BeaconNode *)
(* constructor (the order in which the services are built and the          *)
(* references each one is handed) and the asynchronous start()/stop()      *)
(* methods, several calls of which may be suspended at an await at the     *)
(* same time; the promise chain that derives the transport node; the path  *)
(* resolver getBeaconPaths; and the merge of the options into the default  *)
(* configuration.                                                          *)
(***************************************************************************)
EXTENDS Naturals, Sequences, FiniteSets

\* Bounds of the model.
MaxCalls == 2       \* calls of start()/stop() made on the node
MaxApis == 1        \* Api classes listed in conf.api.apis

\* The causes a service's start()/stop() may reject with.
Causes == {"e1", "e2"}
NoCause == "none"

\* The value of a field that has not been assigned yet.
Undefined == "undefined"

\* The fields of BeaconNode that hold a service (lines 86-93).
Fields == {"reps", "db", "network", "eth1", "opPool", "chain", "sync", "rpc"}

\* The fields on which start() and stop() are called.
Services == {"db", "network", "eth1", "chain", "opPool", "sync", "rpc"}

VARIABLES
    ctorPc,     \* the next statement of the constructor, "done" after it
    conf,       \* this.conf: whether merged, and how many Api classes it lists
    node,       \* the service fields of the BeaconNode: Undefined or an instance
    built,      \* the instances in the order the constructor created them
    deps,       \* per dependent: the <<name, reference>> pairs it was handed
    apiDeps,    \* the same for each Api instance of conf.api.apis.map
    svc,        \* per service: "absent", "constructed", "started" or "stopped"
    calls,      \* the calls of start()/stop(), in the order they were made
    logged,     \* number of logger.info messages written
    libp2p,     \* the promise of lines 118-120: how far its chain has come
    paths,      \* a call of getBeaconPaths: its options and what it returned
    merge       \* a call of deepmerge: its two trees and what it returned

vars == <<ctorPc, conf, node, built, deps, apiDeps, svc, calls, logged,
          libp2p, paths, merge>>
\* The pure functions' calls, which the node's operations never touch.
pure == <<paths, merge>>
ctorVars == <<ctorPc, conf, node, built, deps, apiDeps>>

\* The classes that receive references of the node at construction.
Dependents == {"BeaconDB", "SyncRpc", "Libp2pNetwork", "EthersEth1Notifier",
               "OpPool", "BeaconChain", "Sync", "JSONRPC"}

----------------------------------------------------------------------------
\* The constructor, statement by statement. It is synchronous: start() and
\* stop() can only be called once it has returned (ctorPc = "done").

\* new X(...) assigned to this.<field>: the instance is named after its class.
Assign(field, class) == [node EXCEPT ![field] = class]

\* The service behind `field` now exists.
Constructed(field) == [svc EXCEPT ![field] = "constructed"]

\* The references a dependent is handed: the fields' values at this moment.
Refs(fields) == {<<f, node[f]>> : f \in fields}

\* lines 96-106: the options are merged into this.conf; config and the
\* logger (the caller's or a new WinstonLogger) are kept.
Construct ==
    /\ ctorPc = "conf"
    /\ \E n \in 0..MaxApis : conf' = [merged |-> TRUE, apis |-> n]
    /\ ctorPc' = "reps"
    /\ UNCHANGED <<libp2p, pure, node, built, deps, apiDeps, svc, calls, logged>>

\* line 107
NewReputationStore ==
    /\ ctorPc = "reps"
    /\ node' = Assign("reps", "ReputationStore")
    /\ built' = Append(built, "ReputationStore")
    /\ ctorPc' = "db"
    /\ UNCHANGED <<libp2p, pure, conf, deps, apiDeps, svc, calls, logged>>

\* lines 108-116
NewBeaconDB ==
    /\ ctorPc = "db"
    /\ node' = Assign("db", "BeaconDB")
    /\ deps' = [deps EXCEPT !["BeaconDB"] = {<<"controller", "LevelDbController">>}]
    /\ built' = built \o <<"LevelDbController", "BeaconDB">>
    /\ svc' = Constructed("db")
    /\ ctorPc' = "libp2p"
    /\ UNCHANGED <<libp2p, pure, conf, apiDeps, calls, logged>>

\* lines 118-120: createPeerId() is called and the chain of then-callbacks is
\* attached to its promise; the resulting promise is not awaited.
NewLibp2pPromise ==
    /\ ctorPc = "libp2p"
    /\ built' = Append(built, "libp2p")
    /\ libp2p' = "createPeerId"
    /\ ctorPc' = "syncRpc"
    /\ UNCHANGED <<pure, conf, node, deps, apiDeps, svc, calls, logged>>

\* lines 121-130: const rpc = new SyncRpc(..., {config, db, chain, network, reps})
NewSyncRpc ==
    /\ ctorPc = "syncRpc"
    /\ deps' = [deps EXCEPT !["SyncRpc"] = Refs({"db", "chain", "network", "reps"})]
    /\ built' = Append(built, "SyncRpc")
    /\ ctorPc' = "network"
    /\ UNCHANGED <<libp2p, pure, conf, node, apiDeps, svc, calls, logged>>

\* lines 131-137
NewLibp2pNetwork ==
    /\ ctorPc = "network"
    /\ node' = Assign("network", "Libp2pNetwork")
    /\ deps' = [deps EXCEPT !["Libp2pNetwork"] = {<<"libp2p", "libp2p">>}]
    /\ built' = Append(built, "Libp2pNetwork")
    /\ svc' = Constructed("network")
    /\ ctorPc' = "eth1"
    /\ UNCHANGED <<libp2p, pure, conf, apiDeps, calls, logged>>

\* lines 138-144
NewEthersEth1Notifier ==
    /\ ctorPc = "eth1"
    /\ node' = Assign("eth1", "EthersEth1Notifier")
    /\ built' = Append(built, "EthersEth1Notifier")
    /\ svc' = Constructed("eth1")
    /\ ctorPc' = "opPool"
    /\ UNCHANGED <<libp2p, pure, conf, deps, apiDeps, calls, logged>>

\* lines 145-148
NewOpPool ==
    /\ ctorPc = "opPool"
    /\ node' = Assign("opPool", "OpPool")
    /\ deps' = [deps EXCEPT !["OpPool"] = Refs({"eth1", "db"})]
    /\ built' = Append(built, "OpPool")
    /\ svc' = Constructed("opPool")
    /\ ctorPc' = "chain"
    /\ UNCHANGED <<libp2p, pure, conf, apiDeps, calls, logged>>

\* lines 149-158
NewBeaconChain ==
    /\ ctorPc = "chain"
    /\ node' = Assign("chain", "BeaconChain")
    /\ deps' = [deps EXCEPT !["BeaconChain"] = Refs({"db", "eth1", "opPool"})]
    /\ built' = Append(built, "BeaconChain")
    /\ svc' = Constructed("chain")
    /\ ctorPc' = "sync"
    /\ UNCHANGED <<libp2p, pure, conf, apiDeps, calls, logged>>

\* A constructor that hands Sync this.rpc, not yet assigned, for the local rpc.
NewSyncThisRpc ==
    /\ ctorPc = "sync"
    /\ node' = Assign("sync", "Sync")
    /\ deps' = [deps EXCEPT !["Sync"] =
                  Refs({"db", "eth1", "chain", "opPool", "network", "reps", "rpc"})]
    /\ built' = Append(built, "Sync")
    /\ svc' = Constructed("sync")
    /\ ctorPc' = "rpc"
    /\ UNCHANGED <<libp2p, pure, conf, apiDeps, calls, logged>>

\* lines 159-171: rpc is the local SyncRpc of lines 121-130.
NewSync ==
    /\ ctorPc = "sync"
    /\ node' = Assign("sync", "Sync")
    /\ deps' = [deps EXCEPT !["Sync"] =
                  Refs({"db", "eth1", "chain", "opPool", "network", "reps"})
                  \cup {<<"rpc", "SyncRpc">>}]
    /\ built' = Append(built, "Sync")
    /\ svc' = Constructed("sync")
    /\ ctorPc' = "rpc"
    /\ UNCHANGED <<libp2p, pure, conf, apiDeps, calls, logged>>

\* lines 173-178: one Api instance per class of conf.api.apis, then the JSONRPC.
NewJSONRPC ==
    /\ ctorPc = "rpc"
    /\ apiDeps' = [i \in 1..conf.apis |-> Refs({"chain", "db", "eth1"})]
    /\ node' = Assign("rpc", "JSONRPC")
    /\ deps' = [deps EXCEPT !["JSONRPC"] = {<<"transports", "WSServer">>}]
    /\ built' = built \o <<"WSServer">> \o [i \in 1..conf.apis |-> "Api"]
                      \o <<"JSONRPC">>
    /\ svc' = Constructed("rpc")
    /\ ctorPc' = "done"
    /\ UNCHANGED <<libp2p, pure, conf, calls, logged>>

----------------------------------------------------------------------------
\* start() and stop().

\* A start() that starts the core chain before the chain observer.
StartOrderChainFirst ==
    <<"db", "network", "chain", "eth1", "opPool", "sync", "rpc">>

\* lines 184-190: the awaited calls of start(), in program order.
StartOrder == <<"db", "network", "eth1", "chain", "opPool", "sync", "rpc">>

\* A stop() that releases the storage before the network transport.
StopOrderDbEarly ==
    <<"rpc", "sync", "opPool", "chain", "eth1", "db", "network">>

\* lines 194-201: the awaited calls of stop(), in program order.
StopOrder == <<"rpc", "sync", "opPool", "chain", "eth1", "network", "db">>

Order(kind) == IF kind = "start" THEN StartOrder ELSE StopOrder

\* An entry of a call's history: the call invoked svc.op(), or the promise
\* it awaited was fulfilled ("ok") or rejected with `cause` ("fail").
Event(s, op, ev, cause) == [svc |-> s, op |-> op, ev |-> ev, cause |-> cause]

\* What a settled call reports. "wrapper" is the error class built by the
\* orchestrator around a failure, "none" when it builds none.
NoError == [wrapper |-> "none", service |-> "none", cause |-> NoCause, pairs |-> {}]

\* An async function whose awaited promise rejects, with no try/catch around
\* the await, rejects with that very reason.
Propagate(cause) ==
    [wrapper |-> "none", service |-> "none", cause |-> cause, pairs |-> {}]

\* The call reaches `await this.<k-th service>.<kind>()`: the operation is
\* invoked and the call is suspended on its promise.
Invoke(call, k) ==
    [call EXCEPT !.pc = k,
                 !.status = "awaiting",
                 !.log = Append(@, Event(Order(call.kind)[k], call.kind,
                                         "invoke", NoCause))]

\* The awaited promise is fulfilled: the call goes on to the next statement,
\* or returns after the last one.
Resume(call) ==
    LET cur == Order(call.kind)[call.pc]
        done == [call EXCEPT !.log = Append(@, Event(cur, call.kind, "ok", NoCause))]
    IN  IF call.pc < Len(Order(call.kind))
        THEN Invoke(done, call.pc + 1)
        ELSE [done EXCEPT !.status = "fulfilled"]

\* A start()/stop() that catches the rejection and goes on with the next step.
ThrowSwallowed(call, cause) ==
    LET cur == Order(call.kind)[call.pc]
        failed == [call EXCEPT !.log = Append(@, Event(cur, call.kind, "fail", cause))]
    IN  IF call.pc < Len(Order(call.kind))
        THEN Invoke(failed, call.pc + 1)
        ELSE [failed EXCEPT !.status = "fulfilled"]

\* The awaited promise is rejected: the exception leaves the method at once.
Throw(call, cause) ==
    LET cur == Order(call.kind)[call.pc]
    IN  [call EXCEPT !.log = Append(@, Event(cur, call.kind, "fail", cause)),
                     !.status = "rejected",
                     !.err = Propagate(cause)]

\* The calls that had settled when a new call is made.
Settled == {i \in DOMAIN calls : calls[i].status # "awaiting"}

\* A call of start() or stop(), run up to its first await.
NewCall(kind) ==
    Invoke([kind |-> kind, pc |-> 0, status |-> "running", err |-> NoError,
            log |-> <<>>, settledBefore |-> Settled], 1)

\* A service whose start()/stop() was fulfilled (interface Service, lines 74-78).
ServiceDone(s, op) ==
    [svc EXCEPT ![s] = IF op = "start" THEN "started" ELSE "stopped"]

\* lines 182-184: start() is called; it logs and awaits this.db.start().
start ==
    /\ ctorPc = "done"
    /\ Len(calls) < MaxCalls
    /\ logged' = logged + 1
    /\ calls' = Append(calls, NewCall("start"))
    /\ UNCHANGED <<libp2p, pure, ctorVars, svc>>

\* lines 193-194: stop() is called; it awaits this.rpc.stop().
stop ==
    /\ ctorPc = "done"
    /\ Len(calls) < MaxCalls
    /\ calls' = Append(calls, NewCall("stop"))
    /\ UNCHANGED <<libp2p, pure, ctorVars, svc, logged>>

\* The operation call i awaits is fulfilled and the call resumes.
AwaitFulfilled(i) ==
    /\ calls[i].status = "awaiting"
    /\ svc' = ServiceDone(Order(calls[i].kind)[calls[i].pc], calls[i].kind)
    /\ calls' = [calls EXCEPT ![i] = Resume(calls[i])]
    /\ UNCHANGED <<libp2p, pure, ctorVars, logged>>

\* The operation call i awaits is rejected with some cause.
AwaitRejected(i) ==
    /\ calls[i].status = "awaiting"
    /\ \E c \in Causes : calls' = [calls EXCEPT ![i] = Throw(calls[i], c)]
    /\ UNCHANGED <<libp2p, pure, ctorVars, svc, logged>>

----------------------------------------------------------------------------
\* getBeaconPaths (lines 28-46).
\*
\* A string that is used as a path is kept as whether it starts with "/" and
\* its segments; `def` is FALSE for undefined, and the empty string is the
\* defined relative path with no segment.
Absent == [def |-> FALSE, abs |-> FALSE, segs |-> <<>>]
Str(abs, segs) == [def |-> TRUE, abs |-> abs, segs |-> segs]
EmptyStr == Str(FALSE, <<>>)
Name(n) == Str(FALSE, <<n>>)

\* JavaScript's truthiness of a string or undefined, and its || and &&.
Falsy(v) == ~v.def \/ v = EmptyStr
OrElse(v, w) == IF Falsy(v) THEN w ELSE v
AndThen(v, w) == IF Falsy(v) THEN v ELSE w

\* path.normalize on segments: "." is dropped and ".." removes the segment
\* before it, or is dropped at the root of an absolute path.
RECURSIVE NormSegs(_, _, _)
NormSegs(abs, stack, rest) ==
    IF rest = <<>> THEN stack
    ELSE LET seg == Head(rest)
             top == Len(stack)
         IN  IF seg = "." THEN NormSegs(abs, stack, Tail(rest))
             ELSE IF seg = ".."
             THEN IF top > 0 /\ stack[top] # ".."
                  THEN NormSegs(abs, SubSeq(stack, 1, top - 1), Tail(rest))
                  ELSE IF abs THEN NormSegs(abs, stack, Tail(rest))
                  ELSE NormSegs(abs, Append(stack, seg), Tail(rest))
             ELSE NormSegs(abs, Append(stack, seg), Tail(rest))

\* path.join(dirname, filepath) for a filepath that is not absolute: the two
\* are put together and normalized; a relative result with no segment is ".".
pathJoin(dirname, filepath) ==
    LET segs == NormSegs(dirname.abs, <<>>, dirname.segs \o filepath.segs)
    IN  Str(dirname.abs, IF segs = <<>> /\ ~dirname.abs THEN <<".">> ELSE segs)

isAbsolute(p) == p.abs

\* util: an absolute filepath is returned unchanged, any other is joined
\* onto dirname.
joinIfRelative(dirname, filepath) ==
    IF isAbsolute(filepath) THEN filepath ELSE pathJoin(dirname, filepath)

\* paths/global: the root directory is the rootDir of the options.
getGlobalPaths(rootDir) == [rootDir |-> rootDir]

\* The five paths that are always resolved, and the fields of the options.
PathFields == {"dbDir", "peerStoreDir", "configFile", "peerIdFile", "enrFile"}
OptionFields == PathFields \cup {"logFile"}

\* A resolver that names the peer store directory like the database's.
DefaultNameSame(field) ==
    CASE field = "dbDir" -> "chain-db"
      [] field = "peerStoreDir" -> "chain-db"
      [] field = "configFile" -> "beacon.config.json"
      [] field = "peerIdFile" -> "peer-id.json"
      [] field = "enrFile" -> "enr.json"

\* lines 31-35: the name used when the option is falsy.
DefaultName(field) ==
    CASE field = "dbDir" -> "chain-db"
      [] field = "peerStoreDir" -> "peerstore"
      [] field = "configFile" -> "beacon.config.json"
      [] field = "peerIdFile" -> "peer-id.json"
      [] field = "enrFile" -> "enr.json"

\* lines 31-35: the option each path is read from; peerStoreDir reads dbDir.
OptionOf(field) == IF field = "peerStoreDir" THEN "dbDir" ELSE field

\* A resolver that returns the name as given, without joining it onto the root.
getBeaconPathsUnjoined(rootDir, options) ==
    [f \in OptionFields |->
        IF f = "logFile"
        THEN AndThen(options.logFile, joinIfRelative(rootDir, options.logFile))
        ELSE OrElse(options[OptionOf(f)], Name(DefaultName(f)))]

\* A resolver that falls back to a default log file name.
getBeaconPathsLogDefault(rootDir, options) ==
    [f \in OptionFields |->
        IF f = "logFile"
        THEN joinIfRelative(rootDir, OrElse(options.logFile, Name("beacon.log")))
        ELSE joinIfRelative(rootDir,
                            OrElse(options[OptionOf(f)], Name(DefaultName(f))))]

\* lines 28-46: the paths returned (beaconDir, the root itself, is left out).
getBeaconPaths(rootDir, options) ==
    LET beaconDir == getGlobalPaths(rootDir).rootDir
    IN  [f \in OptionFields |->
            IF f = "logFile"
            THEN AndThen(options.logFile,
                         joinIfRelative(beaconDir, options.logFile))
            ELSE joinIfRelative(beaconDir,
                                OrElse(options[OptionOf(f)], Name(DefaultName(f))))]

\* The roots looked at: an absolute one, the relative "$rootDir" of
\* defaultBeaconPaths (line 51), and "/".
Roots == {Str(TRUE, <<"data", "node1">>), Name("$rootDir"), Str(TRUE, <<>>)}

\* The values an option takes: undefined, "", "x", "../up", "/custom/storage".
OptionValues ==
    {Absent, EmptyStr, Name("x"), Str(FALSE, <<"..", "up">>),
     Str(TRUE, <<"custom", "storage">>)}

NoPaths == [f \in OptionFields |-> Absent]

\* No call of getBeaconPaths is being looked at.
PathsIdle ==
    [phase |-> "idle", root |-> Absent, opts |-> NoPaths,
     out |-> NoPaths, again |-> NoPaths]

\* The calls of getBeaconPaths looked at.
PathsInit ==
    paths \in [phase : {"called"}, root : Roots,
               opts : [OptionFields -> OptionValues],
               out : {NoPaths}, again : {NoPaths}]

\* getBeaconPaths returns.
Resolve ==
    /\ paths.phase = "called"
    /\ paths' = [paths EXCEPT !.phase = "returned",
                              !.out = getBeaconPaths(paths.root, paths.opts)]
    /\ UNCHANGED <<ctorVars, svc, calls, logged, libp2p, merge>>

\* Every path of the result is joined onto the same root once more.
Rejoin ==
    /\ paths.phase = "returned"
    /\ paths' = [paths EXCEPT
                   !.phase = "rejoined",
                   !.again = [f \in OptionFields |->
                                IF paths.out[f].def
                                THEN joinIfRelative(paths.root, paths.out[f])
                                ELSE paths.out[f]]]
    /\ UNCHANGED <<ctorVars, svc, calls, logged, libp2p, merge>>

----------------------------------------------------------------------------
\* this.conf = deepmerge(defaultConf, opts, {isMergeableObject: isPlainObject})
\* (lines 97-104).
\*
\* A value of a configuration tree: a scalar, an array, an instance of a
\* class ("opaque") or a plain object. `kids` holds the <<key, value>> pairs
\* of an object's properties. `tag` names where a value that is passed on by
\* reference comes from ("d": the defaults, "o": the options); a plain object
\* is rebuilt by the merge and carries no tag.
MaxDepth == 3       \* levels of nested objects in a configuration tree

Keys == {"a"}

Value(kind, tag, kids) == [kind |-> kind, tag |-> tag, kids |-> kids]
Plain(kids) == Value("plain", {}, kids)

KeysOf(v) == {p[1] : p \in v.kids}
Get(v, key) == (CHOOSE p \in v.kids : p[1] = key)[2]

\* util/objects: a plain structural record, not an array, not a class instance.
isPlainObject(v) == v.kind = "plain"

isArray(v) == v.kind = "array"

\* `key in target`, which throws (and counts as "no") on a scalar.
propertyIsOnObject(target, key) ==
    target.kind \in {"plain", "opaque"} /\ key \in KeysOf(target)

RECURSIVE deepmerge(_, _)
RECURSIVE mergeObject(_, _)
RECURSIVE mergeObjectSourceOnly(_, _)
RECURSIVE cloneUnlessOtherwiseSpecified(_)

\* A mergeable value is rebuilt by a merge into an empty object; any other
\* value is passed on as it is.
cloneUnlessOtherwiseSpecified(v) ==
    IF isPlainObject(v) THEN deepmerge(Plain({}), v) ELSE v

\* A merge that forgets to copy the target's own properties.
mergeObjectSourceOnly(target, source) ==
    Plain({<<k, IF propertyIsOnObject(target, k) /\ isPlainObject(Get(source, k))
                THEN deepmerge(Get(target, k), Get(source, k))
                ELSE cloneUnlessOtherwiseSpecified(Get(source, k))>> :
             k \in KeysOf(source)})

\* The destination is a new object. It gets the target's properties only if
\* the target is mergeable; then every property of the source is merged into
\* the target's property of that name when the target has one and the
\* source's value is mergeable, and replaces it otherwise.
mergeObject(target, source) ==
    LET kept == IF isPlainObject(target)
                THEN {<<k, cloneUnlessOtherwiseSpecified(Get(target, k))>> :
                        k \in KeysOf(target) \ KeysOf(source)}
                ELSE {}
        merged == {<<k, IF /\ propertyIsOnObject(target, k)
                           /\ isPlainObject(Get(source, k))
                        THEN deepmerge(Get(target, k), Get(source, k))
                        ELSE cloneUnlessOtherwiseSpecified(Get(source, k))>> :
                     k \in KeysOf(source)}
    IN  Plain(kept \cup merged)

\* deepmerge(target, source): an array and a non-array are not merged, the
\* source wins; two arrays are concatenated; else the objects are merged.
deepmerge(target, source) ==
    IF isArray(source) # isArray(target)
    THEN cloneUnlessOtherwiseSpecified(source)
    ELSE IF isArray(source)
    THEN Value("array", target.tag \cup source.tag, {})
    ELSE mergeObject(target, source)

\* deepmerge assigns to its destination only: the argument is left as it was.
AfterCall(v) == v

\* The values of at most d nested levels whose parts come from `tag`.
RECURSIVE Values(_, _)
Values(tag, d) ==
    LET leaves == {Value("scalar", {tag}, {}), Value("array", {tag}, {})}
    IN  IF d = 0 THEN leaves
        ELSE LET below == Values(tag, d - 1)
                 kidSets == UNION {{{<<k, f[k]>> : k \in K} : f \in [K -> below]} :
                                     K \in SUBSET Keys}
             IN  leaves \cup {Plain(kids) : kids \in kidSets}
                        \cup {Value("opaque", {tag}, kids) : kids \in kidSets}

\* The configuration trees: plain objects at the root.
Trees(tag) == {v \in Values(tag, MaxDepth) : isPlainObject(v)}

\* No call of deepmerge is being looked at.
MergeIdle ==
    [phase |-> "idle", target |-> Plain({}), source |-> Plain({}),
     targetAfter |-> Plain({}), sourceAfter |-> Plain({}), out |-> Plain({})]

\* The calls of deepmerge looked at: defaults and options of every shape.
MergeInit ==
    \E d \in Trees("d"), o \in Trees("o") :
        merge = [phase |-> "called", target |-> d, source |-> o,
                 targetAfter |-> d, sourceAfter |-> o, out |-> Plain({})]

\* lines 97-104: deepmerge returns this.conf.
Compose ==
    /\ merge.phase = "called"
    /\ merge' = [merge EXCEPT
                   !.phase = "merged",
                   !.out = deepmerge(merge.target, merge.source),
                   !.targetAfter = AfterCall(merge.target),
                   !.sourceAfter = AfterCall(merge.source)]
    /\ UNCHANGED <<ctorVars, svc, calls, logged, libp2p, paths>>

----------------------------------------------------------------------------
\* The promise chain of lines 118-120:
\*   createPeerId().then(initializePeerInfo).then(new NodejsNode).
\* A then-callback runs as a job of its own, never inside the synchronous
\* constructor that attached it: no step is enabled before ctorPc = "done".

\* line 118: createPeerId() is fulfilled; line 119 calls initializePeerInfo.
PeerIdCreated ==
    /\ ctorPc = "done"
    /\ libp2p = "createPeerId"
    /\ libp2p' = "initializePeerInfo"
    /\ UNCHANGED <<ctorVars, svc, calls, logged, pure>>

\* lines 119-120: initializePeerInfo is fulfilled; the NodejsNode is
\* constructed and the promise handed to Libp2pNetwork is resolved with it.
PeerInfoInitialized ==
    /\ ctorPc = "done"
    /\ libp2p = "initializePeerInfo"
    /\ libp2p' = "resolved"
    /\ built' = Append(built, "NodejsNode")
    /\ UNCHANGED <<ctorPc, conf, node, deps, apiDeps, svc, calls, logged, pure>>

\* createPeerId or initializePeerInfo rejects: so does the whole chain.
Libp2pRejected ==
    /\ ctorPc = "done"
    /\ libp2p \in {"createPeerId", "initializePeerInfo"}
    /\ libp2p' = "rejected"
    /\ UNCHANGED <<ctorVars, svc, calls, logged, pure>>

----------------------------------------------------------------------------
\* The node before the constructor body runs.
NodeInit ==
    /\ ctorPc = "conf"
    /\ conf = [merged |-> FALSE, apis |-> 0]
    /\ node = [f \in Fields |-> Undefined]
    /\ built = <<>>
    /\ deps = [d \in Dependents |-> {}]
    /\ apiDeps = <<>>
    /\ svc = [s \in Services |-> "absent"]
    /\ calls = <<>>
    /\ logged = 0
    /\ libp2p = "absent"

Init ==
    /\ NodeInit
    /\ paths = PathsIdle
    /\ merge = MergeIdle

\* The constructor and the calls of start() and stop(); the derivation of the
\* transport node stays pending.
Next ==
    \/ Construct
    \/ NewReputationStore
    \/ NewBeaconDB
    \/ NewLibp2pPromise
    \/ NewSyncRpc
    \/ NewLibp2pNetwork
    \/ NewEthersEth1Notifier
    \/ NewOpPool
    \/ NewBeaconChain
    \/ NewSync
    \/ NewJSONRPC
    \/ start
    \/ stop
    \/ \E i \in DOMAIN calls : AwaitFulfilled(i)
    \/ \E i \in DOMAIN calls : AwaitRejected(i)

Spec == Init /\ [][Next]_vars

\* The same with the steps of the derivation of the transport node, which
\* interleave freely with the calls of start() and stop().
NextNet ==
    \/ Next
    \/ PeerIdCreated
    \/ PeerInfoInitialized
    \/ Libp2pRejected

SpecNet == Init /\ [][NextNet]_vars

\* The calls of getBeaconPaths, each on its own.
InitPaths ==
    /\ NodeInit
    /\ PathsInit
    /\ merge = MergeIdle

NextPaths ==
    \/ Resolve
    \/ Rejoin

SpecPaths == InitPaths /\ [][NextPaths]_vars

\* The calls of deepmerge, each on its own.
InitMerge ==
    /\ NodeInit
    /\ paths = PathsIdle
    /\ MergeInit

NextMerge == Compose

SpecMerge == InitMerge /\ [][NextMerge]_vars

----------------------------------------------------------------------------
\* What the properties below are stated with.

\* The orders the specification gives: storage, network transport, chain
\* observer, core chain, operation pool, synchronization engine, API server,
\* and the exact reverse.
SpecStartOrder == <<"db", "network", "eth1", "chain", "opPool", "sync", "rpc">>
SpecStopOrder == [k \in 1..Len(SpecStartOrder) |->
                    SpecStartOrder[Len(SpecStartOrder) + 1 - k]]

StartCalls == {i \in DOMAIN calls : calls[i].kind = "start"}
StopCalls == {i \in DOMAIN calls : calls[i].kind = "stop"}

Range(seq) == {seq[p] : p \in DOMAIN seq}
IsPrefix(s, t) == Len(s) <= Len(t) /\ s = SubSeq(t, 1, Len(s))
PosIn(seq, x) == CHOOSE k \in DOMAIN seq : seq[k] = x

\* The services whose operation a call invoked, in the order of the invocations.
Invoked(call) ==
    LET inv == SelectSeq(call.log, LAMBDA e : e.ev = "invoke")
    IN  [p \in DOMAIN inv |-> inv[p].svc]

\* The events of a call's history in which an awaited operation failed.
Failures(call) == {e \in Range(call.log) : e.ev = "fail"}

\* Every invocation but the first directly follows an event of kind in `evs`
\* of the service that precedes the invoked one in `order`.
OneAtATime(call, order, evs) ==
    \A p \in DOMAIN call.log :
        (call.log[p].ev = "invoke" /\ p > 1) =>
            LET k == PosIn(order, call.log[p].svc)
            IN  /\ k > 1
                /\ call.log[p - 1].svc = order[k - 1]
                /\ call.log[p - 1].op = call.kind
                /\ call.log[p - 1].ev \in evs

\* C1: within one call of start() the services' starts are invoked in the
\* order db, network, eth1, chain, opPool, sync, rpc (all seven when the call
\* completes), and each start is invoked only directly after the start of the
\* preceding service was fulfilled.
C1_StartSequential ==
    \A i \in StartCalls :
        LET inv == Invoked(calls[i])
        IN  /\ IsPrefix(inv, SpecStartOrder)
            /\ \A e \in Range(calls[i].log) : e.op = "start"
            /\ OneAtATime(calls[i], SpecStartOrder, {"ok"})
            /\ calls[i].status = "fulfilled" => inv = SpecStartOrder

\* A call of start() ran to its end, having started all seven services.
C1_Witness ==
    \E i \in StartCalls :
        calls[i].status = "fulfilled" /\ Len(Invoked(calls[i])) = 7

\* C2: within one call of stop() the services' stops are invoked in the exact
\* reverse of the start order (all seven when the call completes), none more
\* than once, and each only directly after the previously invoked stop settled.
C2_StopReverse ==
    \A j \in StopCalls :
        LET inv == Invoked(calls[j])
        IN  /\ IsPrefix(inv, SpecStopOrder)
            /\ \A e \in Range(calls[j].log) : e.op = "stop"
            /\ Cardinality(Range(inv)) = Len(inv)
            /\ OneAtATime(calls[j], SpecStopOrder, {"ok", "fail"})
            /\ calls[j].status = "fulfilled" => inv = SpecStopOrder

\* A call of stop() ran to its end, having stopped all seven services.
C2_Witness ==
    \E j \in StopCalls :
        calls[j].status = "fulfilled" /\ Len(Invoked(calls[j])) = 7

\* C3: a call of stop() made on a fully started orchestrator (a start() had
\* completed) has, once it has settled, invoked the stop of each of the seven
\* services exactly once in reverse start order, whichever stops failed.
C3_StopNeverAborts ==
    \A j \in StopCalls :
        ( /\ calls[j].status # "awaiting"
          /\ \E i \in calls[j].settledBefore :
                calls[i].kind = "start" /\ calls[i].status = "fulfilled" )
        => Invoked(calls[j]) = SpecStopOrder

\* C4: if the start of the k-th service fails, start() fails; it has invoked
\* the starts of the first k services only, those before the k-th were
\* fulfilled and are still started (as long as nobody calls stop()), and the
\* call invoked no stop operation.
C4_StartFailureHalts ==
    \A i \in StartCalls : \A p \in DOMAIN calls[i].log :
        calls[i].log[p].ev = "fail" =>
            LET k == PosIn(SpecStartOrder, calls[i].log[p].svc)
            IN  /\ calls[i].status = "rejected"
                /\ p = Len(calls[i].log)
                /\ Invoked(calls[i]) = SubSeq(SpecStartOrder, 1, k)
                /\ \A m \in 1..(k - 1) :
                      Event(SpecStartOrder[m], "start", "ok", NoCause)
                          \in Range(calls[i].log)
                /\ \A e \in Range(calls[i].log) : e.op # "stop"
                /\ StopCalls = {} =>
                      \A m \in 1..(k - 1) : svc[SpecStartOrder[m]] = "started"

\* start() failed at a service that has services before and after it.
C4_Witness ==
    \E i \in StartCalls :
        /\ calls[i].status = "rejected"
        /\ calls[i].pc \in 2..6
        /\ Failures(calls[i]) # {}
        /\ StopCalls = {}

\* C5: when sk's start failed in a call of start(), a call of stop() made
\* afterwards has, once it has settled, invoked the stop of every one of
\* s1..s(k-1), whatever the outcome of the other stops it invoked.
C5_StopAfterFailedStart ==
    \A i \in StartCalls : \A j \in StopCalls :
        ( /\ i \in calls[j].settledBefore
          /\ Failures(calls[i]) # {}
          /\ calls[j].status # "awaiting" )
        => \A e \in Failures(calls[i]) :
              \A m \in 1..(PosIn(SpecStartOrder, e.svc) - 1) :
                  SpecStartOrder[m] \in Range(Invoked(calls[j]))

\* The service operations in flight: one per suspended call.
InFlight == {i \in DOMAIN calls : calls[i].status = "awaiting"}

\* C6: at no time are two service lifecycle operations in flight, however
\* the calls of start() and stop() interleave.
C6_OneInFlight == Cardinality(InFlight) <= 1

\* C7: Stopped is terminal: a call of start() made after a call of stop() has
\* completed invokes no service's start.
C7_StoppedTerminal ==
    \A i \in StartCalls :
        (\E j \in calls[i].settledBefore :
            calls[j].kind = "stop" /\ calls[j].status = "fulfilled")
        => Invoked(calls[i]) = <<>>

\* C8: when a step of start() fails, start() fails with a StartupError that
\* names the failing service and carries the underlying cause.
C8_StartupError ==
    \A i \in StartCalls : \A e \in Failures(calls[i]) :
        /\ calls[i].status = "rejected"
        /\ calls[i].err.wrapper = "StartupError"
        /\ calls[i].err.service = e.svc
        /\ calls[i].err.cause = e.cause

\* C9: a settled stop() whose steps all succeeded reports no error; otherwise
\* it reports a ShutdownError holding exactly the {service, cause} pairs of
\* the stops that failed during the call.
C9_ShutdownError ==
    \A j \in StopCalls :
        calls[j].status # "awaiting" =>
            LET failed == {<<e.svc, e.cause>> : e \in Failures(calls[j])}
            IN  IF failed = {}
                THEN calls[j].status = "fulfilled" /\ calls[j].err = NoError
                ELSE /\ calls[j].status = "rejected"
                     /\ calls[j].err.wrapper = "ShutdownError"
                     /\ calls[j].err.pairs = failed

\* The cross-references of the claim, and the dependents it names.
CrossRefs == {"db", "chain", "network", "reps"}
AllHanded == UNION {deps[d] : d \in Dependents} \cup UNION Range(apiDeps)

\* C10: every db, chain, network or reps handed to a dependent is, at the
\* moment it is handed over, an assigned instance, and it is the instance the
\* node holds in the field of that name once constructed.
C10_CanonicalRefs ==
    \A r \in AllHanded :
        r[1] \in CrossRefs =>
            /\ r[2] # Undefined
            /\ ctorPc = "done" => r[2] = node[r[1]]

\* The classes built on the network transport.
NetworkDependents == {"Libp2pNetwork", "SyncRpc", "Sync"}

\* C11: the derivation of the network transport is fully resolved before any
\* of Libp2pNetwork, SyncRpc and Sync is constructed and before any service's
\* start is invoked.
C11_TransportResolvedFirst ==
    /\ (NetworkDependents \cap Range(built) # {}) => libp2p = "resolved"
    /\ (\E i \in StartCalls : Invoked(calls[i]) # <<>>) => libp2p = "resolved"

\* The default names the specification documents.
SpecDefaultName(field) ==
    CASE field = "dbDir" -> "chain-db"
      [] field = "peerStoreDir" -> "peerstore"
      [] field = "configFile" -> "beacon.config.json"
      [] field = "peerIdFile" -> "peer-id.json"
      [] field = "enrFile" -> "enr.json"

\* getBeaconPaths has returned.
Returned == paths.phase \in {"returned", "rejoined"}

\* The path R/name.
Under(root, name) == Str(root.abs, root.segs \o <<name>>)

\* C12: each of the five resolved paths is decided by its own override alone:
\* joinIfRelative(root, own override) when that override is supplied (a
\* non-empty string), and joinIfRelative(root, own default name) when not.
C12_OwnOverrideOnly ==
    Returned =>
        \A f \in PathFields :
            paths.out[f] =
                joinIfRelative(paths.root,
                               IF Falsy(paths.opts[f])
                               THEN Name(SpecDefaultName(f))
                               ELSE paths.opts[f])

\* C13: with no overrides the result is R/chain-db, R/peerstore,
\* R/beacon.config.json, R/peer-id.json, R/enr.json and no log file.
C13_Defaults ==
    (Returned /\ paths.opts = NoPaths) =>
        /\ paths.out.dbDir = Under(paths.root, "chain-db")
        /\ paths.out.peerStoreDir = Under(paths.root, "peerstore")
        /\ paths.out.configFile = Under(paths.root, "beacon.config.json")
        /\ paths.out.peerIdFile = Under(paths.root, "peer-id.json")
        /\ paths.out.enrFile = Under(paths.root, "enr.json")
        /\ paths.out.logFile = Absent

\* getBeaconPaths({rootDir: "$rootDir"}), the call of line 51, has returned.
C13_Witness ==
    Returned /\ paths.opts = NoPaths /\ paths.root = Name("$rootDir")

\* The paths of the result: the five, and the log file when it is one.
ResultPaths == PathFields \cup (IF Falsy(paths.out.logFile) THEN {} ELSE {"logFile"})

C17_LogFileOnlyIfSupplied ==
    Returned =>
        IF Falsy(paths.opts.logFile)
        THEN /\ Falsy(paths.out.logFile)
             /\ ~paths.opts.logFile.def => paths.out.logFile = Absent
        ELSE paths.out.logFile = joinIfRelative(paths.root, paths.opts.logFile)

\* A call with a relative logFile override has returned.
C17_Witness ==
    /\ Returned
    /\ paths.opts.logFile = Name("x")
    /\ paths.out.logFile = Under(paths.root, "x")

\* C19: the resolved storage directory and the resolved peer store directory
\* are never the same path.
C19_DistinctDirs ==
    Returned => paths.out.dbDir # paths.out.peerStoreDir

\* Where the parts of a value that are passed on by reference come from.
RECURSIVE Origins(_)
Origins(v) == v.tag \cup UNION {Origins(p[2]) : p \in v.kids}

\* C15: for a key whose default is not a plain object and that the options
\* hold, the composed value has nothing of the default's value in it, at any
\* depth, also when the options give a plain record for the key.
C15_OpaqueReplaced ==
    merge.phase = "merged" =>
        \A k \in KeysOf(merge.target) \cap KeysOf(merge.source) :
            ~isPlainObject(Get(merge.target, k)) =>
                "d" \notin Origins(Get(merge.out, k))

ServiceClass(field) ==
    CASE field = "db" -> "BeaconDB"
      [] field = "network" -> "Libp2pNetwork"
      [] field = "eth1" -> "EthersEth1Notifier"
      [] field = "chain" -> "BeaconChain"
      [] field = "opPool" -> "OpPool"
      [] field = "sync" -> "Sync"
      [] field = "rpc" -> "JSONRPC"

\* The field of the node that holds the instance of each service class.
ServiceOfClass ==
    [c \in {ServiceClass(f) : f \in Services} |->
        CHOOSE f \in Services : ServiceClass(f) = c]

\* The services built so far, in the order the constructor built them.
BuiltServices ==
    LET seq == SelectSeq(built, LAMBDA c : c \in DOMAIN ServiceOfClass)
    IN  [p \in DOMAIN seq |-> ServiceOfClass[seq[p]]]

\* What a service was handed when it was built (the API server: its handlers too).
HandedTo(field) ==
    deps[ServiceClass(field)]
        \cup (IF field = "rpc" THEN UNION Range(apiDeps) ELSE {})

\* Every reference handed to a built service is an instance built before it.
BuiltAfterItsRefs ==
    \A p \in DOMAIN built :
        built[p] \in DOMAIN ServiceOfClass =>
            \A r \in HandedTo(ServiceOfClass[built[p]]) :
                /\ r[2] # Undefined
                /\ \E q \in 1..(p - 1) : built[q] = r[2]

\* C18 as stated: the constructor builds the services in the order storage,
\* network transport, chain observer, core chain, operation pool,
\* synchronization engine, API server, each after the services it is handed.
C18_BuildOrderAsStated ==
    /\ IsPrefix(BuiltServices, SpecStartOrder)
    /\ BuiltAfterItsRefs

\* C18, amended: the constructor builds the services in the order storage,
\* network transport, chain observer, operation pool, core chain,
\* synchronization engine, API server, each after the services it is handed.
C18_BuildOrder ==
    /\ IsPrefix(BuiltServices,
                <<"db", "network", "eth1", "opPool", "chain", "sync", "rpc">>)
    /\ BuiltAfterItsRefs

\* The constructor has returned with all seven services built.
C18_Witness == ctorPc = "done" /\ Len(BuiltServices) = 7

====
